---- MODULE Spec2Model ----
(***************************************************************************)
(* A model of cobalt-mysql-pool (src/cobalt-mysql-pool.c): a fixed pool of *)
(* DB_POOL_CONN_COUNT MySQL connections handed out by db_get_conn and      *)
(* given back by db_post_conn, with db_open / db_close around them.        *)
(*                                                                         *)
(* Every thread of the application is a process of the model.  A call is   *)
(* split at the points where another thread can observe an intermediate    *)
(* state.  A critical section that only reads and writes the data its lock *)
(* protects is one step together with the lock and unlock around it, the   *)
(* step being enabled when the lock can be taken; db_mutex is held across  *)
(* steps where the C code blocks or drops another lock while holding it.   *)
(* A call ends in pc = "ret" with its result in rv, and DoReturn, the next  *)
(* step, brings the thread back to "idle".                                 *)
(*                                                                         *)
(* The callers keep the loan discipline: a thread passes to db_post_conn   *)
(* the handle db_get_conn gave it, once, and makes no other call while it  *)
(* holds a handle (the pool keeps nothing per thread, so a call made by a  *)
(* holder is the same call made by another thread).  System calls succeed  *)
(* in Spec and SpecOpenOnce; SpecFault adds the failures db_get_conn has a *)
(* branch for.  SpecFair is Spec under a fair scheduler, SpecInitRace lets *)
(* first calls of db_open run concurrently, SpecLocks shows db_rw_lock     *)
(* held across steps, and SpecFillRace shows the slot loop of db_open one  *)
(* slot in each step under concurrent first calls.                         *)
(***************************************************************************)
EXTENDS Integers, FiniteSets, Sequences, TLC

\* ------------------------------------------------------------- bounds
\* The pool size of the model (the program is built with 8).
DB_POOL_CONN_COUNT == 2
\* The number of application threads.
NumThreads == 3

Threads == 1..NumThreads
Slots == 0..(DB_POOL_CONN_COUNT - 1)
\* MYSQL* values: NULL and the connection objects the client library can
\* hand out (an object freed by mysql_close may be handed out again).
NULL == 0
ConnIds == 1..DB_POOL_CONN_COUNT
NoThread == 0

\* ------------------------------------------------------ error strings
err_not_inited == "database library can not be initialized"
err_not_thread_safe == "database library is not thread-safe"
err_not_open == "database connection is closed"
err_input == "invalid input parameters"
err_unknown == "unknown error or no error"
err_connect == "can not connect to the database"
err_reconnect == "can not reconnect to the database"
err_init == "the database is not initialized"
err_ping == "database ping was not successful"
err_mutex == "can not acquire the database mutex"
err_rwlock == "can not acquire the database rw-lock"
err_semaphore_wait == "semaphore wait error"
err_clock_gettime == "clock_gettime failed"
err_init_mutex == "failed to initialize the mutex"
err_no_free_slot_bug == "no free slot found, this is a bug"
err_no_busy_slot_bug == "no busy slot found, this is a bug"
NoErr == "NULL"

VARIABLES
    pc,               \* per thread: where it is in the call it is making
    rv,               \* per thread: the result of the call that just ended
    mysql_conn,       \* per thread: the handle it holds (db_get_conn's local,
                      \* then the caller's, then db_post_conn's argument)
    i_close,          \* per thread: db_close's loop index i
    mysql_conns,      \* the slot table: slot -> MYSQL* (NULL when empty)
    mysql_conns_busy, \* slot -> 0/1
    is_thread_safe,
    is_inited,
    is_open,
    is_closed,
    err_last,
    db_mutex,         \* the thread that owns db_mutex, NoThread when free
    db_rw_lock,       \* [w |-> writer or NoThread, r |-> set of readers]
    db_sem,           \* the value of the semaphore db_sem
    live,             \* the connection objects created and not yet mysql_close'd
    lib_thread_safe   \* what mysql_thread_safe() answers in this build

vars == <<pc, rv, mysql_conn, i_close, mysql_conns, mysql_conns_busy,
          is_thread_safe, is_inited, is_open, is_closed, err_last,
          db_mutex, db_rw_lock, db_sem, live, lib_thread_safe>>

threadv == <<pc, rv, mysql_conn, i_close>>
tablev == <<mysql_conns, mysql_conns_busy, live>>
flagv == <<is_open, is_closed>>
initv == <<is_thread_safe, is_inited, lib_thread_safe>>
lockv == <<db_mutex, db_rw_lock>>

\* The result of a call: the function, the value returned, the error string
\* it stored in err_last (NoErr when none) and the line of the return.
NoRv == [op |-> "none", val |-> 0, err |-> NoErr, line |-> 0]
Rv(op, val, err, line) == [op |-> op, val |-> val, err |-> err, line |-> line]

\* ------------------------------------------------------------ helpers
BusySlots == {i \in Slots : mysql_conns_busy[i] = 1}
FreeSlots == {i \in Slots : mysql_conns_busy[i] = 0}
BusyCount == Cardinality(BusySlots)
MinOf(S) == CHOOSE x \in S : \A y \in S : x <= y

RwFree == db_rw_lock.w = NoThread /\ db_rw_lock.r = {}
RwNoWriter == db_rw_lock.w = NoThread
RwUnlocked == [w |-> NoThread, r |-> {}]

\* db_error() (lines 111-137): the last recorded error string, and without
\* one the status of the pool.
db_error ==
    IF err_last # NoErr THEN err_last
    ELSE IF is_thread_safe = 0 THEN err_not_thread_safe
    ELSE IF is_inited = 0 THEN err_not_inited
    ELSE IF is_open = 0 THEN err_not_open
    ELSE err_unknown

\* Thread t takes a step at label l.  The return of a call (DoReturn) is
\* observed before any thread takes its next step, so a state with
\* pc[t] = "ret" is the state in which t's call returns.
At(t, l) == pc[t] = l /\ \A u \in Threads : pc[u] # "ret"

\* Ends thread t's call: the result is kept in rv until DoReturn.
Ret(t, op, val, err, line) ==
    /\ pc' = [pc EXCEPT ![t] = "ret"]
    /\ rv' = [rv EXCEPT ![t] = Rv(op, val, err, line)]

Goto(t, l) ==
    /\ pc' = [pc EXCEPT ![t] = l]
    /\ rv' = rv

\* ---------------------------------------------------------------- Init
Init ==
    /\ pc = [t \in Threads |-> "idle"]
    /\ rv = [t \in Threads |-> NoRv]
    /\ mysql_conn = [t \in Threads |-> NULL]
    /\ i_close = [t \in Threads |-> 0]
    /\ mysql_conns = [i \in Slots |-> NULL]
    /\ mysql_conns_busy = [i \in Slots |-> 0]
    /\ is_thread_safe = 0
    /\ is_inited = 0
    /\ is_open = 0
    /\ is_closed = 1
    /\ err_last = NoErr
    /\ db_mutex = NoThread
    /\ db_rw_lock = RwUnlocked
    /\ db_sem = 0
    /\ live = {}
    /\ lib_thread_safe \in BOOLEAN

DoReturn(t) ==
    /\ pc[t] = "ret"
    /\ pc' = [pc EXCEPT ![t] = "idle"]
    /\ rv' = [rv EXCEPT ![t] = NoRv]
    /\ UNCHANGED <<mysql_conn, i_close, tablev, flagv, initv, lockv, err_last, db_sem>>

\* ------------------------------------------------------------ db_open
\* mysql_init(NULL): a connection object that is not in use, NULL when the
\* library has none left.
NewConn(lv) == IF ConnIds \ lv = {} THEN NULL ELSE MinOf(ConnIds \ lv)

\* A rollback that closes the slot whose connect failed and no other.
CloseDownFromOnlyLast(i, c) == [c EXCEPT ![i] = NULL]

\* The "close all the connections" loop of db_open: from slot i down to 0,
\* every non-NULL slot is mysql_close'd and set to NULL.
CloseDownFrom(i, c) == [j \in Slots |-> IF j <= i THEN NULL ELSE c[j]]
ClosedDownFrom(i, c) == {c[j] : j \in {k \in Slots : k <= i}} \ {NULL}

\* A loop over the slots that leaves the last slot out.
RECURSIVE FillFromSkipsLast(_, _, _, _)
FillFromSkipsLast(i, c, lv, failAt) ==
    IF i >= DB_POOL_CONN_COUNT - 1
    THEN [conns |-> c, live |-> lv, err |-> NoErr]
    ELSE IF c[i] = NULL
    THEN LET h == NewConn(lv)
             c1 == [c EXCEPT ![i] = h]
             lv1 == IF h = NULL THEN lv ELSE lv \cup {h}
         IN  IF h = NULL \/ failAt = i
             THEN [conns |-> CloseDownFrom(i, c1),
                   live |-> lv1 \ ClosedDownFrom(i, c1),
                   err |-> err_connect]
             ELSE FillFromSkipsLast(i + 1, c1, lv1, failAt)
    ELSE IF failAt = i
         THEN [conns |-> c, live |-> lv, err |-> err_reconnect]
         ELSE FillFromSkipsLast(i + 1, c, lv, failAt)

\* A loop that treats a failed ping as it treats a failed connect: the
\* connections of the slots up to it are closed.
RECURSIVE FillFromPingRollsBack(_, _, _, _)
FillFromPingRollsBack(i, c, lv, failAt) ==
    IF i = DB_POOL_CONN_COUNT
    THEN [conns |-> c, live |-> lv, err |-> NoErr]
    ELSE IF c[i] = NULL
    THEN LET h == NewConn(lv)
             c1 == [c EXCEPT ![i] = h]
             lv1 == IF h = NULL THEN lv ELSE lv \cup {h}
         IN  IF h = NULL \/ failAt = i
             THEN [conns |-> CloseDownFrom(i, c1),
                   live |-> lv1 \ ClosedDownFrom(i, c1),
                   err |-> err_connect]
             ELSE FillFromPingRollsBack(i + 1, c1, lv1, failAt)
    ELSE IF failAt = i
         THEN [conns |-> CloseDownFrom(i, c),
               live |-> lv \ ClosedDownFrom(i, c),
               err |-> err_reconnect]
         ELSE FillFromPingRollsBack(i + 1, c, lv, failAt)

\* The for loop of db_open over the slots, from slot i on, on table c with
\* live objects lv.  failAt is the slot whose connect (empty slot) or ping
\* (filled slot) fails, DB_POOL_CONN_COUNT when none does.
RECURSIVE FillFrom(_, _, _, _)
FillFrom(i, c, lv, failAt) ==
    IF i = DB_POOL_CONN_COUNT
    THEN [conns |-> c, live |-> lv, err |-> NoErr]
    ELSE IF c[i] = NULL
    THEN LET h == NewConn(lv)
             c1 == [c EXCEPT ![i] = h]
             lv1 == IF h = NULL THEN lv ELSE lv \cup {h}
         IN  IF h = NULL \/ failAt = i
             THEN [conns |-> CloseDownFrom(i, c1),
                   live |-> lv1 \ ClosedDownFrom(i, c1),
                   err |-> err_connect]
             ELSE FillFrom(i + 1, c1, lv1, failAt)
    ELSE IF failAt = i
         THEN [conns |-> c, live |-> lv, err |-> err_reconnect]
         ELSE FillFrom(i + 1, c, lv, failAt)

\* The first db_open of a process is made while no other thread is inside
\* the one-time initialization.
SingleInit(t) == is_inited = 1 \/ \A u \in Threads \ {t} : pc[u] # "open_init"

\* A sem_init that is off by one.
SemInitOffByOne == DB_POOL_CONN_COUNT + 1
\* Line 174: the value sem_init gives db_sem.
SemInitValue == DB_POOL_CONN_COUNT

\* db_open is called; line 150 reads is_inited.
CallOpen(t) ==
    /\ At(t, "idle")
    /\ mysql_conn[t] = NULL
    /\ SingleInit(t)
    /\ Goto(t, IF is_inited = 0 THEN "open_init" ELSE "open_lock")
    /\ UNCHANGED <<mysql_conn, i_close, tablev, flagv, initv, lockv, err_last, db_sem>>

\* Lines 151-181: the one-time initialization.
OpenInit(t) ==
    /\ At(t, "open_init")
    /\ IF ~lib_thread_safe
       THEN /\ is_thread_safe' = 0
            /\ Ret(t, "db_open", -1, NoErr, 153)
            /\ UNCHANGED <<is_inited, lockv, db_sem>>
       ELSE /\ is_thread_safe' = 1
            /\ db_mutex' = NoThread
            /\ db_rw_lock' = RwUnlocked
            /\ db_sem' = SemInitValue
            /\ is_inited' = 1
            /\ Goto(t, "open_lock")
    /\ UNCHANGED <<mysql_conn, i_close, tablev, flagv, lib_thread_safe, err_last>>

\* Lines 184-238: pthread_mutex_lock(&db_mutex), then the loop over the
\* slots.  A failure unlocks db_mutex and returns -1; otherwise db_mutex
\* stays locked.
OpenFill(t) ==
    /\ At(t, "open_lock")
    /\ db_mutex = NoThread
    /\ \E failAt \in Slots \cup {DB_POOL_CONN_COUNT} :
         LET r == FillFrom(0, mysql_conns, live, failAt)
         IN  /\ mysql_conns' = r.conns
             /\ live' = r.live
             /\ IF r.err = NoErr
                THEN /\ db_mutex' = t
                     /\ Goto(t, "open_flip")
                     /\ UNCHANGED err_last
                ELSE /\ db_mutex' = NoThread
                     /\ err_last' = r.err
                     /\ Ret(t, "db_open", -1, r.err, IF r.err = err_connect THEN 220 ELSE 235)
    /\ UNCHANGED <<mysql_conn, i_close, mysql_conns_busy, flagv, initv, db_rw_lock, db_sem>>

\* A flip that sets is_open and forgets is_closed.
OpenFlipKeepsClosed(t) ==
    /\ At(t, "open_flip")
    /\ RwFree
    /\ is_open' = 1
    /\ is_closed' = is_closed
    /\ db_rw_lock' = RwUnlocked
    /\ db_mutex' = NoThread
    /\ Ret(t, "db_open", 0, NoErr, 254)
    /\ UNCHANGED <<mysql_conn, i_close, tablev, initv, err_last, db_sem>>

\* Lines 240-254: under the write lock the flags become open; both locks
\* are released.
OpenFlip(t) ==
    /\ At(t, "open_flip")
    /\ RwFree
    /\ is_open' = 1
    /\ is_closed' = 0
    /\ db_rw_lock' = RwUnlocked
    /\ db_mutex' = NoThread
    /\ Ret(t, "db_open", 0, NoErr, 254)
    /\ UNCHANGED <<mysql_conn, i_close, tablev, initv, err_last, db_sem>>

\* ----------------------------------------------------------- db_close
\* db_close is called; line 262 reads is_inited.
CallClose(t) ==
    /\ At(t, "idle")
    /\ mysql_conn[t] = NULL
    /\ IF is_inited = 0
       THEN /\ err_last' = err_init
            /\ Ret(t, "db_close", -1, err_init, 264)
       ELSE /\ Goto(t, "close_flip")
            /\ UNCHANGED err_last
    /\ UNCHANGED <<mysql_conn, i_close, tablev, flagv, initv, lockv, db_sem>>

\* Lines 267-297, under the write lock: an already closed pool returns 0 at
\* once; otherwise the flags are flipped and the drain loop starts at
\* slot 0.
CloseFlip(t) ==
    /\ At(t, "close_flip")
    /\ RwFree
    /\ db_rw_lock' = RwUnlocked
    /\ IF is_closed = 1
       THEN /\ Ret(t, "db_close", 0, NoErr, 274)
            /\ UNCHANGED <<flagv, i_close>>
       ELSE /\ is_open' = 0
            /\ is_closed' = 1
            /\ i_close' = [i_close EXCEPT ![t] = 0]
            /\ Goto(t, "close_scan")
    /\ UNCHANGED <<mysql_conn, tablev, initv, db_mutex, err_last, db_sem>>

\* A drain loop that ends at the first free slot instead of the last one.
CloseScanStopsAtFree(t) ==
    /\ At(t, "close_scan")
    /\ db_mutex = NoThread
    /\ IF mysql_conns_busy[i_close[t]] = 1
       THEN /\ Goto(t, "close_sem")
            /\ UNCHANGED i_close
       ELSE /\ i_close' = [i_close EXCEPT ![t] = 0]
            /\ Ret(t, "db_close", 0, NoErr, 324)
    /\ UNCHANGED <<mysql_conn, tablev, flagv, initv, lockv, err_last, db_sem>>

\* Lines 299-321, one iteration of the for loop: db_mutex is locked, slot i
\* is read and db_mutex is unlocked.  A busy slot sends the thread to
\* sem_wait; a free last slot ends the loop with ready = 1 and db_close
\* returns 0 (line 324).
CloseScan(t) ==
    /\ At(t, "close_scan")
    /\ db_mutex = NoThread
    /\ IF mysql_conns_busy[i_close[t]] = 1
       THEN /\ Goto(t, "close_sem")
            /\ UNCHANGED i_close
       ELSE IF i_close[t] + 1 < DB_POOL_CONN_COUNT
       THEN /\ i_close' = [i_close EXCEPT ![t] = i_close[t] + 1]
            /\ Goto(t, "close_scan")
       ELSE /\ i_close' = [i_close EXCEPT ![t] = 0]
            /\ Ret(t, "db_close", 0, NoErr, 324)
    /\ UNCHANGED <<mysql_conn, tablev, flagv, initv, lockv, err_last, db_sem>>

\* Lines 309-313 and 318-320: sem_wait(&db_sem), then ready = 0 breaks the
\* for loop and the while loop starts it again at slot 0.
CloseSemWait(t) ==
    /\ At(t, "close_sem")
    /\ db_sem > 0
    /\ db_sem' = db_sem - 1
    /\ i_close' = [i_close EXCEPT ![t] = 0]
    /\ Goto(t, "close_scan")
    /\ UNCHANGED <<mysql_conn, tablev, flagv, initv, lockv, err_last>>

\* -------------------------------------------------------- db_get_conn
\* db_get_conn is called; line 372 reads is_inited.
CallGet(t) ==
    /\ At(t, "idle")
    /\ mysql_conn[t] = NULL
    /\ IF is_inited = 0
       THEN /\ err_last' = err_init
            /\ Ret(t, "db_get_conn", NULL, err_init, 374)
       ELSE /\ Goto(t, "get_check1")
            /\ UNCHANGED err_last
    /\ UNCHANGED <<mysql_conn, i_close, tablev, flagv, initv, lockv, db_sem>>

\* Lines 377-389: the first is_open check, under the read lock.
GetCheck1(t) ==
    /\ At(t, "get_check1")
    /\ RwNoWriter
    /\ IF is_open = 0
       THEN /\ err_last' = err_not_open
            /\ Ret(t, "db_get_conn", NULL, err_not_open, 386)
       ELSE /\ Goto(t, "get_sem")
            /\ UNCHANGED err_last
    /\ UNCHANGED <<mysql_conn, i_close, tablev, flagv, initv, lockv, db_sem>>

\* A gate wait with a deadline (sem_timedwait): with no permit it gives up.
GetSemWaitTimed(t) ==
    /\ At(t, "get_sem")
    /\ IF db_sem > 0
       THEN /\ db_sem' = db_sem - 1
            /\ Goto(t, "get_mutex")
            /\ UNCHANGED err_last
       ELSE /\ err_last' = err_semaphore_wait
            /\ Ret(t, "db_get_conn", NULL, err_semaphore_wait, 393)
            /\ UNCHANGED db_sem
    /\ UNCHANGED <<mysql_conn, i_close, tablev, flagv, initv, lockv>>

\* Line 391: sem_wait(&db_sem) blocks while the semaphore is 0.
GetSemWait(t) ==
    /\ At(t, "get_sem")
    /\ db_sem > 0
    /\ db_sem' = db_sem - 1
    /\ Goto(t, "get_mutex")
    /\ UNCHANGED <<mysql_conn, i_close, tablev, flagv, initv, lockv, err_last>>

\* Lines 396-405: pthread_mutex_timedlock(&db_mutex, now + 30 s) succeeds.
GetMutex(t) ==
    /\ At(t, "get_mutex")
    /\ db_mutex = NoThread
    /\ db_mutex' = t
    /\ Goto(t, "get_check2")
    /\ UNCHANGED <<mysql_conn, i_close, tablev, flagv, initv, db_rw_lock, err_last, db_sem>>

\* Lines 405-411: pthread_mutex_timedlock times out, which it can do while
\* another thread holds db_mutex; the permit is posted back.
GetMutexTimeout(t) ==
    /\ At(t, "get_mutex")
    /\ db_mutex # NoThread
    /\ err_last' = err_mutex
    /\ db_sem' = db_sem + 1
    /\ Ret(t, "db_get_conn", NULL, err_mutex, 410)
    /\ UNCHANGED <<mysql_conn, i_close, tablev, flagv, initv, lockv>>

\* Lines 413-434: the second is_open check, under the read lock and with
\* db_mutex held.
GetCheck2(t) ==
    /\ At(t, "get_check2")
    /\ RwNoWriter
    /\ IF is_open = 0
       THEN /\ db_mutex' = NoThread
            /\ err_last' = err_not_open
            /\ db_sem' = db_sem + 1
            /\ Ret(t, "db_get_conn", NULL, err_not_open, 431)
       ELSE /\ Goto(t, "get_pick")
            /\ UNCHANGED <<db_mutex, err_last, db_sem>>
    /\ UNCHANGED <<mysql_conn, i_close, tablev, flagv, initv, db_rw_lock>>

\* A loop that takes the first free slot's connection without marking it.
PickSlotNoMark(c, b) ==
    LET S == {i \in Slots : b[i] = 0}
    IN  IF S = {}
        THEN [busy |-> b, conn |-> NULL]
        ELSE [busy |-> b, conn |-> c[MinOf(S)]]

\* The for loop of db_get_conn (lines 436-442) on table c and flags b: the
\* first slot that is not busy is marked busy and its connection taken.
PickSlot(c, b) ==
    LET S == {i \in Slots : b[i] = 0}
    IN  IF S = {}
        THEN [busy |-> b, conn |-> NULL]
        ELSE [busy |-> [b EXCEPT ![MinOf(S)] = 1], conn |-> c[MinOf(S)]]

\* Lines 436-456, db_mutex held: a NULL result (no free slot, or a free
\* slot that holds NULL) is the "no free slot" failure, which posts the
\* permit back.
GetPick(t) ==
    /\ At(t, "get_pick")
    /\ db_mutex' = NoThread
    /\ LET r == PickSlot(mysql_conns, mysql_conns_busy)
       IN  /\ mysql_conns_busy' = r.busy
           /\ mysql_conn' = [mysql_conn EXCEPT ![t] = r.conn]
           /\ IF r.conn = NULL
              THEN /\ err_last' = err_no_free_slot_bug
                   /\ db_sem' = db_sem + 1
                   /\ Ret(t, "db_get_conn", NULL, err_no_free_slot_bug, 450)
              ELSE /\ Ret(t, "db_get_conn", r.conn, NoErr, 456)
                   /\ UNCHANGED <<err_last, db_sem>>
    /\ UNCHANGED <<i_close, mysql_conns, live, flagv, initv, db_rw_lock>>

\* ------------------------------------------------------- db_post_conn
\* db_post_conn(mysql_conn) is called with the handle the thread holds;
\* lines 464-472.
CallPost(t) ==
    /\ At(t, "idle")
    /\ mysql_conn[t] # NULL
    /\ IF is_inited = 0
       THEN /\ err_last' = err_init
            /\ Ret(t, "db_post_conn", -1, err_init, 466)
       ELSE /\ Goto(t, "post_scan")
            /\ UNCHANGED err_last
    /\ UNCHANGED <<mysql_conn, i_close, tablev, flagv, initv, lockv, db_sem>>

\* A db_post_conn without the check of its argument.
CallPostNullNoCheck(t) ==
    /\ At(t, "idle")
    /\ mysql_conn[t] = NULL
    /\ IF is_inited = 0
       THEN /\ err_last' = err_init
            /\ Ret(t, "db_post_conn", -1, err_init, 466)
       ELSE /\ Goto(t, "post_scan")
            /\ UNCHANGED err_last
    /\ UNCHANGED <<mysql_conn, i_close, tablev, flagv, initv, lockv, db_sem>>

\* db_post_conn(NULL): lines 464-472.
CallPostNull(t) ==
    /\ At(t, "idle")
    /\ mysql_conn[t] = NULL
    /\ err_last' = IF is_inited = 0 THEN err_init ELSE err_input
    /\ Ret(t, "db_post_conn", -1, err_last', IF is_inited = 0 THEN 466 ELSE 471)
    /\ UNCHANGED <<mysql_conn, i_close, tablev, flagv, initv, lockv, db_sem>>

\* A loop without its break: every busy slot takes the handle and is freed.
PostSlotNoBreak(c, b, h) ==
    LET S == {i \in Slots : b[i] # 0}
    IN  IF S = {}
        THEN [conns |-> c, busy |-> b, found |-> 0]
        ELSE [conns |-> [i \in Slots |-> IF i \in S THEN h ELSE c[i]],
              busy |-> [i \in Slots |-> 0],
              found |-> 1]

\* The for loop of db_post_conn (lines 479-486) on table c and flags b: the
\* first busy slot takes the handle h and becomes free.
PostSlot(c, b, h) ==
    LET S == {i \in Slots : b[i] # 0}
    IN  IF S = {}
        THEN [conns |-> c, busy |-> b, found |-> 0]
        ELSE [conns |-> [c EXCEPT ![MinOf(S)] = h],
              busy |-> [b EXCEPT ![MinOf(S)] = 0],
              found |-> 1]

\* Lines 474-495: db_mutex is locked, the loop runs and db_mutex is
\* unlocked.  The caller's handle is given up here.
PostScan(t) ==
    /\ At(t, "post_scan")
    /\ db_mutex = NoThread
    /\ LET r == PostSlot(mysql_conns, mysql_conns_busy, mysql_conn[t])
       IN  /\ mysql_conns' = r.conns
           /\ mysql_conns_busy' = r.busy
           /\ IF r.found = 0
              THEN /\ err_last' = err_no_busy_slot_bug
                   /\ Ret(t, "db_post_conn", -1, err_no_busy_slot_bug, 492)
              ELSE /\ Goto(t, "post_sem")
                   /\ UNCHANGED err_last
    /\ mysql_conn' = [mysql_conn EXCEPT ![t] = NULL]
    /\ UNCHANGED <<i_close, live, flagv, initv, lockv, db_sem>>

\* Lines 497-502: sem_post(&db_sem).
PostSemPost(t) ==
    /\ At(t, "post_sem")
    /\ db_sem' = db_sem + 1
    /\ Ret(t, "db_post_conn", 0, NoErr, 502)
    /\ UNCHANGED <<mysql_conn, i_close, tablev, flagv, initv, lockv, err_last>>

\* ------------------------------------- failing system calls, db_get_conn
\* The calls db_get_conn makes can fail, and the code has a branch for each
\* failure.  These steps are part of SpecFault only.

\* Lines 377-380: pthread_rwlock_rdlock fails before the first check.
GetRdlock1Fail(t) ==
    /\ At(t, "get_check1")
    /\ err_last' = err_rwlock
    /\ Ret(t, "db_get_conn", NULL, err_rwlock, 379)
    /\ UNCHANGED <<mysql_conn, i_close, tablev, flagv, initv, lockv, db_sem>>

\* Lines 391-394: sem_wait fails (a signal interrupts it).
GetSemWaitFail(t) ==
    /\ At(t, "get_sem")
    /\ err_last' = err_semaphore_wait
    /\ Ret(t, "db_get_conn", NULL, err_semaphore_wait, 393)
    /\ UNCHANGED <<mysql_conn, i_close, tablev, flagv, initv, lockv, db_sem>>

\* Lines 396-402: clock_gettime fails; the permit is posted back.
GetClockFail(t) ==
    /\ At(t, "get_mutex")
    /\ err_last' = err_clock_gettime
    /\ db_sem' = db_sem + 1
    /\ Ret(t, "db_get_conn", NULL, err_clock_gettime, 401)
    /\ UNCHANGED <<mysql_conn, i_close, tablev, flagv, initv, lockv>>

\* Lines 413-416: pthread_rwlock_rdlock fails before the second check;
\* db_get_conn returns NULL with db_mutex locked and without a sem_post.
GetRdlock2Fail(t) ==
    /\ At(t, "get_check2")
    /\ err_last' = err_rwlock
    /\ Ret(t, "db_get_conn", NULL, err_rwlock, 415)
    /\ UNCHANGED <<mysql_conn, i_close, tablev, flagv, initv, lockv, db_sem>>

\* ----------------------------------------------------- specification
\* Every step of a thread but the call of db_open.
Steps(t) ==
    \/ OpenInit(t) \/ OpenFill(t) \/ OpenFlip(t)
    \/ CallClose(t) \/ CloseFlip(t) \/ CloseScan(t) \/ CloseSemWait(t)
    \/ CallGet(t) \/ GetCheck1(t) \/ GetSemWait(t)
    \/ GetMutex(t) \/ GetMutexTimeout(t) \/ GetCheck2(t) \/ GetPick(t)
    \/ CallPost(t) \/ CallPostNull(t) \/ PostScan(t) \/ PostSemPost(t)
    \/ DoReturn(t)

Next == \E t \in Threads : CallOpen(t) \/ Steps(t)

\* Any thread calls any function at any time; system calls do not fail.
Spec == Init /\ [][Next]_vars

\* db_open is called only on a pool that was never filled, by one thread at
\* a time: the pool is opened once and then used and closed.
InOpen(t) == pc[t] \in {"open_init", "open_lock", "open_flip"}
CallOpenFirst(t) ==
    /\ \A i \in Slots : mysql_conns[i] = NULL
    /\ \A u \in Threads : ~InOpen(u)
    /\ CallOpen(t)

NextOpenOnce == \E t \in Threads : CallOpenFirst(t) \/ Steps(t)

SpecOpenOnce == Init /\ [][NextOpenOnce]_vars

\* As Spec, and the system calls of db_get_conn may fail.
Faults(t) ==
    \/ GetRdlock1Fail(t) \/ GetSemWaitFail(t) \/ GetClockFail(t)
    \/ GetRdlock2Fail(t)

NextFault == \E t \in Threads : CallOpen(t) \/ Steps(t) \/ Faults(t)

SpecFault == Init /\ [][NextFault]_vars

\* The steps thread t takes once it is inside a call and its return, and
\* the db_post_conn call of a thread that holds a handle: a scheduled thread
\* runs on, and a holder gives its handle back.  Whether db_open, db_close
\* or db_get_conn is called at all is up to the application.
Progress(t) ==
    \/ OpenInit(t) \/ OpenFill(t) \/ OpenFlip(t)
    \/ CloseFlip(t) \/ CloseScan(t) \/ CloseSemWait(t)
    \/ GetCheck1(t) \/ GetSemWait(t)
    \/ GetMutex(t) \/ GetMutexTimeout(t) \/ GetCheck2(t) \/ GetPick(t)
    \/ CallPost(t) \/ PostScan(t) \/ PostSemPost(t)
    \/ DoReturn(t)

\* As Spec, under a fair scheduler: a thread whose next step is possible
\* again and again takes it.
SpecFair == Spec /\ \A t \in Threads : SF_vars(Progress(t))

\* -------------------------------------- concurrent first calls of db_open
\* Line 150 reads is_inited without a lock: a thread can call db_open and
\* find is_inited = 0 while another thread is inside the one-time
\* initialization.
CallOpenRace(t) ==
    /\ At(t, "idle")
    /\ mysql_conn[t] = NULL
    /\ ~SingleInit(t)
    /\ Goto(t, "open_init")
    /\ UNCHANGED <<mysql_conn, i_close, tablev, flagv, initv, lockv, err_last, db_sem>>

\* Lines 163-166 for a thread that lost that race: initializing db_mutex a
\* second time is undefined; besides writing a fresh mutex (OpenInit) the
\* library may refuse and pthread_mutex_init return an error.
OpenInitBusy(t) ==
    /\ At(t, "open_init")
    /\ is_inited = 1
    /\ lib_thread_safe
    /\ is_thread_safe' = 1
    /\ err_last' = err_init_mutex
    /\ Ret(t, "db_open", -1, err_init_mutex, 165)
    /\ UNCHANGED <<mysql_conn, i_close, tablev, flagv, is_inited, lib_thread_safe,
                   lockv, db_sem>>

NextInitRace ==
    \E t \in Threads :
        CallOpen(t) \/ Steps(t) \/ CallOpenRace(t) \/ OpenInitBusy(t)

\* As Spec, and first calls of db_open may be concurrent.
SpecInitRace == Init /\ [][NextInitRace]_vars

\* ------------------------ the slot loop of db_open, one slot in each step
\* After a second initialization db_mutex no longer keeps other threads out
\* of the loop of lines 189-238, so in SpecFillRace the loop is not one step:
\* OpenLock and OpenSlot replace OpenFill, with i_close as db_open's i.

\* Line 184: pthread_mutex_lock(&db_mutex).
OpenLock(t) ==
    /\ At(t, "open_lock")
    /\ db_mutex = NoThread
    /\ db_mutex' = t
    /\ i_close' = [i_close EXCEPT ![t] = 0]
    /\ Goto(t, "open_slot")
    /\ UNCHANGED <<mysql_conn, tablev, flagv, initv, db_rw_lock, err_last, db_sem>>

\* Lines 189-238, one iteration: an empty slot gets a new connection, and
\* when that fails the slots from i down to 0 are closed and emptied; a
\* filled slot is pinged.  failed says whether the connect or ping fails.
OpenSlot(t) ==
    /\ At(t, "open_slot")
    /\ LET i == i_close[t] IN
       IF i = DB_POOL_CONN_COUNT
       THEN /\ Goto(t, "open_flip")
            /\ UNCHANGED <<i_close, tablev, db_mutex, err_last>>
       ELSE \E failed \in BOOLEAN :
            IF mysql_conns[i] = NULL
            THEN LET h == NewConn(live)
                     c1 == [mysql_conns EXCEPT ![i] = h]
                     lv1 == IF h = NULL THEN live ELSE live \cup {h}
                 IN  IF h = NULL \/ failed
                     THEN /\ mysql_conns' = CloseDownFrom(i, c1)
                          /\ live' = lv1 \ ClosedDownFrom(i, c1)
                          /\ i_close' = [i_close EXCEPT ![t] = 0]
                          /\ db_mutex' = NoThread
                          /\ err_last' = err_connect
                          /\ Ret(t, "db_open", -1, err_connect, 220)
                     ELSE /\ mysql_conns' = c1
                          /\ live' = lv1
                          /\ i_close' = [i_close EXCEPT ![t] = i + 1]
                          /\ Goto(t, "open_slot")
                          /\ UNCHANGED <<db_mutex, err_last>>
            ELSE IF failed
                 THEN /\ db_mutex' = NoThread
                      /\ err_last' = err_reconnect
                      /\ Ret(t, "db_open", -1, err_reconnect, 235)
                      /\ UNCHANGED <<i_close, mysql_conns, live>>
                 ELSE /\ i_close' = [i_close EXCEPT ![t] = i + 1]
                      /\ Goto(t, "open_slot")
                      /\ UNCHANGED <<mysql_conns, live, db_mutex, err_last>>
    /\ UNCHANGED <<mysql_conn, mysql_conns_busy, flagv, initv, db_rw_lock, db_sem>>

StepsFill(t) ==
    \/ OpenInit(t) \/ OpenLock(t) \/ OpenSlot(t) \/ OpenFlip(t)
    \/ CallGet(t) \/ GetCheck1(t) \/ GetSemWait(t)
    \/ GetMutex(t) \/ GetMutexTimeout(t) \/ GetCheck2(t) \/ GetPick(t)
    \/ DoReturn(t)

\* db_open is called on a pool that is not open.
CallOpenClosed(t) ==
    /\ is_open = 0
    /\ CallOpen(t)

NextFillRace ==
    \E t \in Threads :
        CallOpenClosed(t) \/ StepsFill(t) \/ CallOpenRace(t) \/ OpenInitBusy(t)

\* The start of a program whose threads each open the pool before they use
\* it: db_open is called while the pool is not open, first calls may be
\* concurrent, the slot loop of db_open is one slot in each step, and the
\* threads go on to call db_get_conn.
SpecFillRace == Init /\ [][NextFillRace]_vars

\* ------------------------------------------ db_rw_lock held across steps
\* The sections of db_rw_lock with the taking of the lock as a step of its
\* own, so that the lock is seen held: "..._in" is a thread inside the
\* section.  These steps replace GetCheck1, GetCheck2, CloseFlip and
\* OpenFlip in SpecLocks.
RdLock(t) == [db_rw_lock EXCEPT !.r = @ \cup {t}]
RdUnlock(t) == [db_rw_lock EXCEPT !.r = @ \ {t}]
WrLock(t) == [db_rw_lock EXCEPT !.w = t]
WrUnlock(t) == [db_rw_lock EXCEPT !.w = NoThread]

\* Line 377: pthread_rwlock_rdlock.
GetCheck1Lock(t) ==
    /\ At(t, "get_check1")
    /\ RwNoWriter
    /\ db_rw_lock' = RdLock(t)
    /\ Goto(t, "get_check1_in")
    /\ UNCHANGED <<mysql_conn, i_close, tablev, flagv, initv, db_mutex, err_last, db_sem>>

\* Lines 382-389.
GetCheck1Body(t) ==
    /\ At(t, "get_check1_in")
    /\ db_rw_lock' = RdUnlock(t)
    /\ IF is_open = 0
       THEN /\ err_last' = err_not_open
            /\ Ret(t, "db_get_conn", NULL, err_not_open, 386)
       ELSE /\ Goto(t, "get_sem")
            /\ UNCHANGED err_last
    /\ UNCHANGED <<mysql_conn, i_close, tablev, flagv, initv, db_mutex, db_sem>>

\* Line 413: pthread_rwlock_rdlock, db_mutex held.
GetCheck2Lock(t) ==
    /\ At(t, "get_check2")
    /\ RwNoWriter
    /\ db_rw_lock' = RdLock(t)
    /\ Goto(t, "get_check2_in")
    /\ UNCHANGED <<mysql_conn, i_close, tablev, flagv, initv, db_mutex, err_last, db_sem>>

\* Lines 423-434.
GetCheck2Body(t) ==
    /\ At(t, "get_check2_in")
    /\ db_rw_lock' = RdUnlock(t)
    /\ IF is_open = 0
       THEN /\ db_mutex' = NoThread
            /\ err_last' = err_not_open
            /\ db_sem' = db_sem + 1
            /\ Ret(t, "db_get_conn", NULL, err_not_open, 431)
       ELSE /\ Goto(t, "get_pick")
            /\ UNCHANGED <<db_mutex, err_last, db_sem>>
    /\ UNCHANGED <<mysql_conn, i_close, tablev, flagv, initv>>

\* Line 267: pthread_rwlock_wrlock.
CloseFlipLock(t) ==
    /\ At(t, "close_flip")
    /\ RwFree
    /\ db_rw_lock' = WrLock(t)
    /\ Goto(t, "close_flip_in")
    /\ UNCHANGED <<mysql_conn, i_close, tablev, flagv, initv, db_mutex, err_last, db_sem>>

\* A db_close that goes on to its drain loop with the write lock held.
CloseFlipBodyKeepsLock(t) ==
    /\ At(t, "close_flip_in")
    /\ IF is_closed = 1
       THEN /\ db_rw_lock' = WrUnlock(t)
            /\ Ret(t, "db_close", 0, NoErr, 274)
            /\ UNCHANGED <<flagv, i_close>>
       ELSE /\ db_rw_lock' = db_rw_lock
            /\ is_open' = 0
            /\ is_closed' = 1
            /\ i_close' = [i_close EXCEPT ![t] = 0]
            /\ Goto(t, "close_scan")
    /\ UNCHANGED <<mysql_conn, tablev, initv, db_mutex, err_last, db_sem>>

\* Lines 272-297.
CloseFlipBody(t) ==
    /\ At(t, "close_flip_in")
    /\ db_rw_lock' = WrUnlock(t)
    /\ IF is_closed = 1
       THEN /\ Ret(t, "db_close", 0, NoErr, 274)
            /\ UNCHANGED <<flagv, i_close>>
       ELSE /\ is_open' = 0
            /\ is_closed' = 1
            /\ i_close' = [i_close EXCEPT ![t] = 0]
            /\ Goto(t, "close_scan")
    /\ UNCHANGED <<mysql_conn, tablev, initv, db_mutex, err_last, db_sem>>

\* Line 240: pthread_rwlock_wrlock, db_mutex held.
OpenFlipLock(t) ==
    /\ At(t, "open_flip")
    /\ RwFree
    /\ db_rw_lock' = WrLock(t)
    /\ Goto(t, "open_flip_in")
    /\ UNCHANGED <<mysql_conn, i_close, tablev, flagv, initv, db_mutex, err_last, db_sem>>

\* Lines 247-254.
OpenFlipBody(t) ==
    /\ At(t, "open_flip_in")
    /\ is_open' = 1
    /\ is_closed' = 0
    /\ db_rw_lock' = WrUnlock(t)
    /\ db_mutex' = NoThread
    /\ Ret(t, "db_open", 0, NoErr, 254)
    /\ UNCHANGED <<mysql_conn, i_close, tablev, initv, err_last, db_sem>>

StepsLocks(t) ==
    \/ OpenInit(t) \/ OpenFill(t) \/ OpenFlipLock(t) \/ OpenFlipBody(t)
    \/ CallClose(t) \/ CloseFlipLock(t) \/ CloseFlipBody(t)
    \/ CloseScan(t) \/ CloseSemWait(t)
    \/ CallGet(t) \/ GetCheck1Lock(t) \/ GetCheck1Body(t) \/ GetSemWait(t)
    \/ GetMutex(t) \/ GetMutexTimeout(t)
    \/ GetCheck2Lock(t) \/ GetCheck2Body(t) \/ GetPick(t)
    \/ CallPost(t) \/ CallPostNull(t) \/ PostScan(t) \/ PostSemPost(t)
    \/ DoReturn(t)

NextLocks == \E t \in Threads : CallOpen(t) \/ StepsLocks(t)

\* As Spec, with db_rw_lock held across steps.
SpecLocks == Init /\ [][NextLocks]_vars

\* ============================================================ claims
Holders == {t \in Threads : mysql_conn[t] # NULL}
\* The threads that took a permit from db_sem and have not posted it back.
PermitHolders ==
    {t \in Threads :
        \/ pc[t] \in {"get_mutex", "get_check2", "get_pick", "post_sem"}
        \/ mysql_conn[t] # NULL}
Quiescent == \A t \in Threads : pc[t] \in {"idle", "ret"}
Returned(t, op, line) == pc[t] = "ret" /\ rv[t].op = op /\ rv[t].line = line
\* The step in which thread t's call of op returns val.
Returns(t, op, val) ==
    pc[t] # "ret" /\ pc'[t] = "ret" /\ rv'[t].op = op /\ rv'[t].val = val

\* C1: with every handle released once and only after it was acquired, the
\* number of busy slots is the number of handles on loan, and it is between
\* 0 and DB_POOL_CONN_COUNT in every reachable state.
C1_BusyWithinCapacity ==
    /\ BusyCount = Cardinality(Holders)
    /\ BusyCount >= 0
    /\ BusyCount <= DB_POOL_CONN_COUNT

\* A db_get_conn returns the handle that makes every slot busy, after a
\* db_post_conn has run (it left its handle in the slot of another one).
C1_Witness ==
    /\ BusyCount = DB_POOL_CONN_COUNT
    /\ \E t \in Threads : Returned(t, "db_get_conn", 456) /\ rv[t].val # NULL
    /\ \E i \in Slots : mysql_conns[i] # NULL /\ mysql_conns[i] # i + 1

\* C2: no handle is held by two threads at once, and no handle on loan sits
\* in a free slot, from where the next db_get_conn would hand it out again.
C2_ExclusiveLoan ==
    /\ \A t \in Holders : \A u \in Holders \ {t} : mysql_conn[t] # mysql_conn[u]
    /\ \A t \in Holders : \A i \in FreeSlots : mysql_conns[i] # mysql_conn[t]

\* Two threads hold handles after a db_post_conn has stored a handle in a
\* slot other than the one it came from (two slots name the same object).
C2_Witness ==
    /\ Cardinality(Holders) = 2
    /\ \E i \in Slots : \E j \in Slots \ {i} :
         mysql_conns[i] # NULL /\ mysql_conns[i] = mysql_conns[j]

\* C3: the permits of db_sem and the threads that hold one never add up to
\* more than DB_POOL_CONN_COUNT; so when DB_POOL_CONN_COUNT threads hold a
\* handle, db_sem is 0, no other thread is past sem_wait, and one more
\* caller stays at sem_wait until a permit is posted.
C3_GateBlocksBeyondCapacity ==
    /\ db_sem >= 0
    /\ db_sem + Cardinality(PermitHolders) <= DB_POOL_CONN_COUNT
    /\ Cardinality(Holders) = DB_POOL_CONN_COUNT =>
         /\ db_sem = 0
         /\ \A t \in Threads \ Holders :
              pc[t] \notin {"get_mutex", "get_check2", "get_pick"}
         /\ \A t \in Threads : pc[t] = "get_sem" => ~ENABLED GetSemWait(t)

\* DB_POOL_CONN_COUNT threads hold a handle and one more waits at sem_wait.
C3_Witness ==
    /\ Cardinality(Holders) = DB_POOL_CONN_COUNT
    /\ \E t \in Threads : pc[t] = "get_sem"

\* C4, as claimed: every db_close that returns 0 returns in a state where no
\* slot is busy.
C4_CloseReturnsDrained ==
    [][\A t \in Threads : Returns(t, "db_close", 0) => BusyCount' = 0]_vars

\* C4, amended: a db_close that flipped the flags itself and ran the drain
\* loop to its end (the return of line 324) returns in a state where no slot
\* is busy and no handle is on loan, when db_open is not called again.
C4_DrainingCloseReturnsDrained ==
    \A t \in Threads :
        Returned(t, "db_close", 324) => BusyCount = 0 /\ Holders = {}

\* A db_close returns from its drain loop after it had to take permits from
\* db_sem, that is after it waited for a busy slot.
C4_Witness ==
    \E t \in Threads :
        /\ Returned(t, "db_close", 324)
        /\ PermitHolders = {}
        /\ db_sem < DB_POOL_CONN_COUNT

\* C5: when db_close returns 0 from its drain loop, every connection has
\* been destroyed (mysql_close) and every slot is empty.
C5_CloseDestroysConnections ==
    [][\A t \in Threads :
          (Returns(t, "db_close", 0) /\ rv'[t].line = 324)
            => (live' = {} /\ \A i \in Slots : mysql_conns'[i] = NULL)]_vars

\* C6: a db_open that succeeds on a closed pool while no other call is in
\* progress and no handle is on loan (db_close has returned) leaves the pool
\* with all slots free and DB_POOL_CONN_COUNT permits in db_sem.
C6_ReopenRestoresCapacity ==
    [][\A t \in Threads :
          ( /\ pc[t] = "open_flip" /\ pc'[t] = "ret"
            /\ is_open = 0 /\ is_closed = 1
            /\ \A u \in Threads \ {t} : pc[u] \in {"idle", "ret"}
            /\ Holders = {} )
          => (db_sem' = DB_POOL_CONN_COUNT /\ BusyCount' = 0)]_vars

\* C7: in every quiescent state of an initialized pool, db_sem is
\* DB_POOL_CONN_COUNT minus the number of busy slots, and never above
\* DB_POOL_CONN_COUNT.
C7_GateMatchesBusy ==
    (is_inited = 1 /\ Quiescent)
        => db_sem = DB_POOL_CONN_COUNT - BusyCount /\ db_sem <= DB_POOL_CONN_COUNT

\* C8: while the flags are closed (is_open = 0, is_closed = 1), no slot goes
\* from free to busy.
C8_NoLoanWhileClosed ==
    [][(is_open = 0 /\ is_closed = 1)
          => \A i \in Slots :
                mysql_conns_busy[i] = 0 => mysql_conns_busy'[i] = 0]_vars

\* C9: a db_get_conn that took a permit and returns NULL has posted the
\* permit back and does not own db_mutex when it returns.
C9_FailedAcquireGivesBack ==
    [][\A t \in Threads :
          ( /\ pc[t] \in {"get_mutex", "get_check2", "get_pick"}
            /\ Returns(t, "db_get_conn", NULL) )
          => (db_sem' = db_sem + 1 /\ db_mutex' # t)]_vars

C11_CloseEventuallyReturns ==
    \A t \in Threads :
        (pc[t] = "close_flip" /\ \A u \in Threads : ~InOpen(u))
            ~> (pc[t] = "ret" \/ \E u \in Threads : InOpen(u))

\* C12, as claimed: whenever db_open returns 0, every slot holds a
\* connection and no slot is busy.
C12_OpenLeavesAllFree ==
    \A t \in Threads :
        Returned(t, "db_open", 254)
            => \A i \in Slots : mysql_conns[i] # NULL /\ mysql_conns_busy[i] = 0

\* C12, amended: whenever db_open returns 0, the pool is open, every slot
\* holds a connection, and the busy slots are those of the handles on loan
\* (db_open leaves the busy flags alone): every slot is free when no handle
\* is on loan, and then the slots hold DB_POOL_CONN_COUNT different
\* connections.
C12_OpenFillsEverySlot ==
    \A t \in Threads :
        Returned(t, "db_open", 254)
            => /\ is_open = 1 /\ is_closed = 0
               /\ \A i \in Slots : mysql_conns[i] # NULL
               /\ BusyCount = Cardinality(Holders)
               /\ Holders = {} =>
                    /\ BusyCount = 0
                    /\ \A i \in Slots : \A j \in Slots \ {i} :
                         mysql_conns[i] # mysql_conns[j]

\* db_open returns 0 on a pool that was already open, with a handle on loan.
C12_Witness ==
    \E t \in Threads : Returned(t, "db_open", 254) /\ BusyCount > 0

\* C13: when db_open fails because the connect of a slot fails (the return
\* of line 220, whichever slot it was), every slot is empty and every
\* connection created has been closed, is_open and is_closed are what they
\* were and the pool is not open, the caller does not hold db_mutex, and
\* db_error() answers err_connect.
C13_ConnectFailureRollsBack ==
    [][\A t \in Threads :
          (Returns(t, "db_open", -1) /\ rv'[t].line = 220)
            => /\ \A i \in Slots : mysql_conns'[i] = NULL
               /\ live' = {}
               /\ is_open' = is_open /\ is_closed' = is_closed
               /\ is_open' = 0
               /\ db_mutex' # t
               /\ db_error' = err_connect]_vars

\* A db_open has returned -1 from its rollback: the table is empty and the
\* error is recorded.
C13_Witness ==
    \E t \in Threads :
        /\ Returned(t, "db_open", 220)
        /\ rv[t].val = -1
        /\ err_last = err_connect
        /\ \A i \in Slots : mysql_conns[i] = NULL

\* C14: db_post_conn(NULL) on an initialized pool returns -1 at once with
\* err_input as the error db_error() answers, and changes no slot, no busy
\* flag and not db_sem.
C14_PostNullChangesNothing ==
    [][\A t \in Threads :
          ( /\ pc[t] = "idle" /\ pc'[t] # "idle"
            /\ rv'[t].op = "db_post_conn" \/ pc'[t] = "post_scan"
            /\ mysql_conn[t] = NULL
            /\ is_inited = 1 )
          => /\ pc'[t] = "ret"
             /\ rv'[t].val = -1
             /\ db_error' = err_input
             /\ mysql_conns' = mysql_conns
             /\ mysql_conns_busy' = mysql_conns_busy
             /\ db_sem' = db_sem]_vars

\* db_post_conn(NULL) has returned while a slot is busy and a permit is
\* out: a release would have changed both.
C14_Witness ==
    \E t \in Threads :
        /\ Returned(t, "db_post_conn", 471)
        /\ BusyCount > 0
        /\ db_sem < DB_POOL_CONN_COUNT

\* C15: in every reachable state the flags, as a thread can read them
\* (every read and write of them is made under db_rw_lock), are 0 or 1 and
\* the pair (is_open, is_closed) is not (1, 1).
C15_NeverOpenAndClosed ==
    /\ is_open \in {0, 1}
    /\ is_closed \in {0, 1}
    /\ ~(is_open = 1 /\ is_closed = 1)

\* Both flips have acted and overlap: a db_open has set the pool open again
\* while the drain loop of a db_close that closed it is still running.
C15_Witness ==
    /\ is_open = 1
    /\ is_closed = 0
    /\ \E t \in Threads : pc[t] \in {"close_scan", "close_sem"}

\* The result r of a call is a failure: -1 from the int functions, NULL
\* from db_get_conn.
Failed(r) ==
    \/ r.op \in {"db_open", "db_close", "db_post_conn"} /\ r.val = -1
    \/ r.op = "db_get_conn" /\ r.val = NULL

\* C16: when a call returns a failure, db_error() called next answers the
\* error of that failure: the string the call recorded, and for the db_open
\* that fails because the library is not thread-safe (it records none),
\* err_not_thread_safe; not a string an earlier call recorded.
C16_ErrorOfLastFailure ==
    [][\A t \in Threads :
          (pc[t] # "ret" /\ pc'[t] = "ret" /\ Failed(rv'[t]))
            => db_error' = IF rv'[t].err # NoErr THEN rv'[t].err
                           ELSE err_not_thread_safe]_vars

\* C17: the loop of db_post_conn, run with handle h, frees the busy slot
\* that holds h and changes no other slot; when no busy slot holds h, the
\* call fails with err_no_busy_slot_bug and changes no slot.
C17_PostFreesTheHandlesSlot ==
    [][\A t \in Threads :
          (pc[t] = "post_scan" /\ pc'[t] # "post_scan")
            => LET h == mysql_conn[t]
                   S == {i \in BusySlots : mysql_conns[i] = h}
               IN  IF S # {}
                   THEN /\ pc'[t] = "post_sem"
                        /\ \E i \in S :
                             /\ mysql_conns_busy'[i] = 0
                             /\ \A j \in Slots \ {i} :
                                  /\ mysql_conns_busy'[j] = mysql_conns_busy[j]
                                  /\ mysql_conns'[j] = mysql_conns[j]
                   ELSE /\ Returns(t, "db_post_conn", -1)
                        /\ rv'[t].err = err_no_busy_slot_bug
                        /\ mysql_conns' = mysql_conns
                        /\ mysql_conns_busy' = mysql_conns_busy]_vars

\* C18: the one-time initialization of db_open (the locks created, db_sem
\* set to DB_POOL_CONN_COUNT) runs only on a pool that is not initialized,
\* so at most once.
C18_InitRunsOnce ==
    [][\A t \in Threads :
          (pc[t] = "open_init" /\ pc'[t] = "open_lock") => is_inited = 0]_vars

\* C19: db_get_conn never returns the "no free slot" error: a thread that
\* took a permit and passed the second is_open check finds a slot that is not
\* busy and holds a connection.
C19_NoFreeSlotErrorNeverReturned ==
    /\ \A t \in Threads : ~Returned(t, "db_get_conn", 450)
    /\ \A t \in Threads :
         pc[t] = "get_pick" => \E i \in FreeSlots : mysql_conns[i] # NULL

\* Thread t holds db_rw_lock; t is at a pthread_mutex_lock / timedlock of
\* db_mutex, at a sem_wait of db_sem, at a lock call of db_rw_lock.
HoldsRw(t) == db_rw_lock.w = t \/ t \in db_rw_lock.r
WaitsMutex(t) == pc[t] \in {"open_lock", "close_scan", "get_mutex", "post_scan"}
WaitsGate(t) == pc[t] \in {"get_sem", "close_sem"}
\* Thread t waits for a lock that thread u holds.
WaitsFor(t, u) ==
    /\ t # u
    /\ \/ WaitsMutex(t) /\ db_mutex = u
       \/ pc[t] \in {"close_flip", "open_flip"} /\ HoldsRw(u)
       \/ pc[t] \in {"get_check1", "get_check2"} /\ db_rw_lock.w = u

\* C20: no thread holds db_rw_lock while it waits for db_mutex or at a
\* sem_wait, no thread is at a sem_wait while it holds db_mutex, and there
\* is no set of threads each of which waits for a lock that another thread
\* of the set holds.
C20_NoLockCycle ==
    /\ \A t \in Threads : HoldsRw(t) => ~WaitsMutex(t) /\ ~WaitsGate(t)
    /\ \A t \in Threads : WaitsGate(t) => db_mutex # t
    /\ \A D \in SUBSET Threads :
         D # {} => \E t \in D : \A u \in D : ~WaitsFor(t, u)

\* A chain of waits: one thread waits for db_mutex, which a thread holds
\* that waits for db_rw_lock, which a third thread holds.
C20_Witness ==
    \E t \in Threads : \E u \in Threads : \E v \in Threads :
        /\ WaitsFor(t, u)
        /\ WaitsFor(u, v)
        /\ HoldsRw(v)

\* C21: when db_open fails because the ping of a slot that holds a
\* connection fails (the return of line 235), no connection has been
\* closed, the slots and the busy flags are what they were, and so are
\* is_open and is_closed; the caller does not hold db_mutex and db_error()
\* answers err_reconnect.
C21_PingFailureChangesNothing ==
    [][\A t \in Threads :
          (Returns(t, "db_open", -1) /\ rv'[t].line = 235)
            => /\ live' = live
               /\ mysql_conns' = mysql_conns
               /\ mysql_conns_busy' = mysql_conns_busy
               /\ is_open' = is_open /\ is_closed' = is_closed
               /\ db_mutex' # t
               /\ db_error' = err_reconnect]_vars

\* A db_open has failed on a ping while the pool is open and a handle is
\* on loan: the table is full and the busy slot is still busy.
C21_Witness ==
    \E t \in Threads :
        /\ Returned(t, "db_open", 235)
        /\ is_open = 1
        /\ BusyCount > 0
        /\ \A i \in Slots : mysql_conns[i] # NULL

\* Thread t is inside db_open.
InOpenCall(t) == InOpen(t) \/ pc[t] = "open_slot"

\* C22: while no thread is inside db_open the slots are all empty or all
\* filled; whenever is_open = 1 every slot holds a connection; and a thread
\* at the slot loop of db_get_conn finds a connection in every free slot.
C22_OpenPoolHasEverySlotFilled ==
    /\ (\A t \in Threads : ~InOpenCall(t))
         => \/ \A i \in Slots : mysql_conns[i] = NULL
            \/ \A i \in Slots : mysql_conns[i] # NULL
    /\ is_open = 1 => \A i \in Slots : mysql_conns[i] # NULL
    /\ \A t \in Threads :
         pc[t] = "get_pick" => \A i \in FreeSlots : mysql_conns[i] # NULL

====
